---------------------------- MODULE Spec2Model ----------------------------
(***************************************************************************)
(* Model of src/main.py (API_WBUY): the order proxy in front of the WBuy   *)
(* upstream.  The pure helpers (_num_centavos, _extract_shipping_total,    *)
(* _extract_tracking_from_detail, _unwrap_first) are operators; the        *)
(* endpoints (get_order_detail_v1/v2, find_by_query_v1/v2) are state       *)
(* machines with one step per upstream request, the upstream's answer      *)
(* being a nondeterministic choice.                                        *)
(*                                                                         *)
(* Strings are sequences of one-character strings.  A JSON value is a      *)
(* record [t, s, n, sub]: t is its Python type, s its characters (str),    *)
(* n its number (int: the value, float: the value in hundredths, list:     *)
(* its length), sub its entries (dict).                                    *)
(***************************************************************************)
EXTENDS Integers, Sequences, FiniteSets, TLC

VARIABLES
    pc,      \* position of the running operation
    arg,     \* argument of the helper called alone
    res,     \* its outcome: [raised |-> BOOLEAN, n |-> Int, s |-> string]
    req,     \* the incoming request: endpoint and parameters
    ctx,     \* the handler's locals: tracking, deep, oid, caller
    scan,    \* the deep scan's position: status, page, items left of the page
    resp,    \* the response, once the handler has returned
    hist     \* history of the upstream requests of this incoming request

vars == <<pc, arg, res, req, ctx, scan, resp, hist>>

----------------------------------------------------------------------------
(* Bounds *)

\* longest enumerated money string
MaxLen == 3

----------------------------------------------------------------------------
(* Characters and strings *)

DigitChars == {"0", "1", "2", "3", "4", "5", "6", "7", "8", "9"}

DigitVal(c) ==
    CASE c = "0" -> 0 [] c = "1" -> 1 [] c = "2" -> 2 [] c = "3" -> 3
      [] c = "4" -> 4 [] c = "5" -> 5 [] c = "6" -> 6 [] c = "7" -> 7
      [] c = "8" -> 8 [] c = "9" -> 9

\* str.strip(): leading and trailing whitespace removed
RECURSIVE LStrip(_)
LStrip(s) == IF s /= <<>> /\ Head(s) = " " THEN LStrip(Tail(s)) ELSE s

RECURSIVE RStrip(_)
RStrip(s) ==
    IF s /= <<>> /\ s[Len(s)] = " " THEN RStrip(SubSeq(s, 1, Len(s) - 1)) ELSE s

Strip(s) == RStrip(LStrip(s))

\* str.upper(), letter by letter
LowerLetters == <<"a", "b", "c", "d", "e", "f", "g", "h", "i", "j", "k", "l", "m",
                  "n", "o", "p", "q", "r", "s", "t", "u", "v", "w", "x", "y", "z">>
UpperLetters == <<"A", "B", "C", "D", "E", "F", "G", "H", "I", "J", "K", "L", "M",
                  "N", "O", "P", "Q", "R", "S", "T", "U", "V", "W", "X", "Y", "Z">>

UpperChar(c) ==
    IF \E i \in 1..26 : LowerLetters[i] = c
    THEN UpperLetters[CHOOSE i \in 1..26 : LowerLetters[i] = c]
    ELSE c

Upper(s) == [i \in 1..Len(s) |-> UpperChar(s[i])]

\* s.replace(".", "")
RemoveDots(s) == SelectSeq(s, LAMBDA c : c /= ".")

\* s.replace(",", ".")
CommasToDots(s) == [i \in 1..Len(s) |-> IF s[i] = "," THEN "." ELSE s[i]]

RECURSIVE DigitsValue(_)
DigitsValue(ds) ==
    IF ds = <<>> THEN 0
    ELSE 10 * DigitsValue(SubSeq(ds, 1, Len(ds) - 1)) + DigitVal(ds[Len(ds)])

AllDigits(s) == \A i \in 1..Len(s) : s[i] \in DigitChars

DotPositions(s) == {i \in 1..Len(s) : s[i] = "."}

\* float(s) for the model's alphabet (digits, '.', '-', ' ', letters): an
\* optional '-', digits with at most one '.', at least one digit.
\* [ok, neg, ip, fr]: sign, integer part, fraction digits.
ParseFloat(s0) ==
    LET s    == Strip(s0)
        neg  == s /= <<>> /\ Head(s) = "-"
        body == IF neg THEN Tail(s) ELSE s
        dots == DotPositions(body)
        d    == IF dots = {} THEN Len(body) + 1 ELSE CHOOSE i \in dots : TRUE
        ip   == SubSeq(body, 1, d - 1)
        fr   == SubSeq(body, d + 1, Len(body))
        ok   == /\ Cardinality(dots) <= 1
                /\ AllDigits(ip) /\ AllDigits(fr)
                /\ Len(ip) + Len(fr) >= 1
    IN  IF ok THEN [ok |-> TRUE, neg |-> neg, ip |-> DigitsValue(ip), fr |-> fr]
        ELSE [ok |-> FALSE, neg |-> FALSE, ip |-> 0, fr |-> <<>>]

\* round(): to the nearest integer, a tie to the even one.  q is the integer
\* below, up says the rest is above one half, tie that it is exactly one half.
RoundHalfEven(q, up, tie) ==
    IF up \/ (tie /\ q % 2 = 1) THEN q + 1 ELSE q

\* int(round(float(s) * 100)) of a parsed float
CentsOfParsed(p) ==
    LET fr   == p.fr
        d1   == IF Len(fr) >= 1 THEN DigitVal(fr[1]) ELSE 0
        d2   == IF Len(fr) >= 2 THEN DigitVal(fr[2]) ELSE 0
        rest == SubSeq(fr, 3, Len(fr))
        more == \E i \in 2..Len(rest) : rest[i] /= "0"
        r1   == IF rest = <<>> THEN 0 ELSE DigitVal(rest[1])
        up   == r1 > 5 \/ (r1 = 5 /\ more)
        tie  == r1 = 5 /\ ~more
        mag  == RoundHalfEven(p.ip * 100 + d1 * 10 + d2, up, tie)
    IN  IF p.neg THEN 0 - mag ELSE mag

----------------------------------------------------------------------------
(* JSON values *)

\* A leaf value: [t, s, n].  t is the Python type; s the characters of a str;
\* n the value of an int, the value in hundredths of a float, the number of
\* elements of a list or of entries of a dict (whose content nothing reads).
Null       == [t |-> "null",  s |-> <<>>, n |-> 0]
JStr(s)    == [t |-> "str",   s |-> s,    n |-> 0]
JInt(n)    == [t |-> "int",   s |-> <<>>, n |-> n]
JFloat(h)  == [t |-> "float", s |-> <<>>, n |-> h]
JList(n)   == [t |-> "list",  s |-> <<>>, n |-> n]

\* The entries the code reads of a nested mapping; Null when absent.
NoSub == [valor |-> Null, rastreio |-> Null, shipping |-> Null,
          shipping_total |-> Null, tracking |-> Null]

\* A nested value (the value of "frete", "totals", "order", "shipping"): a
\* leaf with the entries sub when it is a dict.
Nested(leaf) == [t |-> leaf.t, s |-> leaf.s, n |-> leaf.n, sub |-> NoSub]
JDict(sub)   == [t |-> "dict", s |-> <<>>, n |-> 1, sub |-> sub]
EmptyDict    == [t |-> "dict", s |-> <<>>, n |-> 0, sub |-> NoSub]

\* The entries of an order record; Null when absent.  Two of them are
\* entries the code does not read: rastreio, at the top level, and
\* pedido_frete_valor, the value at the path pedido.frete.valor.
NoFields ==
    [shipping_total |-> Null, valor_frete |-> Null, frete_total |-> Null,
     total_frete |-> Null, frete |-> Nested(Null), totals |-> Nested(Null),
     order |-> Nested(Null), rastreamento |-> Null, shipping |-> Nested(Null),
     rastreio |-> Null, pedido_frete_valor |-> Null,
     id |-> Null, order_id |-> Null]

\* A top-level value: an order record (a dict of n entries), or what the
\* upstream sent in its place.
JOrder(f)    == [t |-> "dict", s |-> <<>>, n |-> 1, f |-> f]
EmptyOrder   == [t |-> "dict", s |-> <<>>, n |-> 0, f |-> NoFields]
NotOrder(lf) == [t |-> lf.t, s |-> lf.s, n |-> lf.n, f |-> NoFields]

\* bool(v)
Truthy(v) ==
    CASE v.t = "null" -> FALSE
      [] v.t = "str"  -> v.s /= <<>>
      [] OTHER        -> v.n /= 0

RECURSIVE NatToStr(_)
NatToStr(n) ==
    LET d == <<"0", "1", "2", "3", "4", "5", "6", "7", "8", "9">>[(n % 10) + 1]
    IN  IF n < 10 THEN <<d>> ELSE Append(NatToStr(n \div 10), d)

IntToStr(n) == IF n < 0 THEN <<"-">> \o NatToStr(0 - n) ELSE NatToStr(n)

\* str(v) of a float given in hundredths: 12.5, 9.9, 10.0, 0.05
FloatToStr(h) ==
    LET a    == IF h < 0 THEN 0 - h ELSE h
        fr   == a % 100
        frs  == IF fr % 10 = 0 THEN NatToStr(fr \div 10)
                ELSE NatToStr(fr \div 10) \o NatToStr(fr % 10)
        body == NatToStr(a \div 100) \o <<".">> \o frs
    IN  IF h < 0 THEN <<"-">> \o body ELSE body

\* str(v): a list and a dict print with their brackets
StrOf(v) ==
    CASE v.t = "str"   -> v.s
      [] v.t = "int"   -> IntToStr(v.n)
      [] v.t = "float" -> FloatToStr(v.n)
      [] v.t = "list"  -> IF v.n = 0 THEN <<"[", "]">> ELSE <<"[", "1", "]">>
      [] v.t = "dict"  -> IF v.n = 0 THEN <<"{", "}">> ELSE <<"{", "a", "}">>
      [] OTHER         -> <<"N", "o", "n", "e">>

----------------------------------------------------------------------------
(* _num_centavos *)

\* the string branch, lines 44-51
CentsOfString(str) ==
    LET s == Strip(str)
    IN  IF s = <<>> THEN 0
        ELSE LET p == ParseFloat(CommasToDots(RemoveDots(s)))
             IN  IF p.ok THEN CentsOfParsed(p) ELSE 0

\* _num_centavos(v)
NumCentavos(v) ==
    CASE v.t = "null"  -> 0
      [] v.t = "int"   -> v.n
      [] v.t = "float" ->
            IF v.n < 100000 THEN v.n
            ELSE RoundHalfEven(v.n \div 100, v.n % 100 > 50, v.n % 100 = 50)
      [] OTHER         -> CentsOfString(StrOf(v))

----------------------------------------------------------------------------
(* Specification of the money parser: the argument is any string of at most *)
(* MaxLen characters of MoneyAlphabet, or one of the samples.               *)

MoneyAlphabet == {"0", "1", "2", ".", ",", "-", " ", "x"}

MoneySamples ==
    { <<"1", ".", "2", "3", "4", ",", "5", "6">>,
      <<"2", "1", ",", "7", "4">>,
      <<"2", "1", ".", "7", "4">>,
      <<"1", "0", ",", "0", "0">>,
      <<"1", ",", "2", "3", "4", ".", "5", "6">>,
      <<"-", "5", ",", "0", "0">> }

MoneyStrings ==
    MoneySamples \cup UNION {[1..n -> MoneyAlphabet] : n \in 0..MaxLen}

NoRes == [raised |-> FALSE, n |-> 0, s |-> <<>>]

\* the endpoints' variables, while a helper alone is called
NoApi == [none |-> TRUE]
ApiIdle == req = NoApi /\ ctx = NoApi /\ scan = NoApi /\ resp = NoApi /\ hist = NoApi
apiVars == <<req, ctx, scan, resp, hist>>

InitMoney ==
    /\ pc = "call"
    /\ arg \in {JStr(s) : s \in MoneyStrings}
    /\ res = NoRes
    /\ ApiIdle

CallNumCentavos ==
    /\ pc = "call"
    /\ pc' = "done"
    /\ res' = [raised |-> FALSE, n |-> NumCentavos(arg), s |-> <<>>]
    /\ UNCHANGED <<arg, apiVars>>

NextMoney == CallNumCentavos

SpecMoney == InitMoney /\ [][NextMoney]_vars

----------------------------------------------------------------------------
(* _extract_shipping_total, _extract_tracking_from_detail *)

\* (x or {})
OrEmpty(x) == IF Truthy(x) THEN x ELSE EmptyDict

\* x.get(...) raises AttributeError unless x is a dict
CanGet(x) == x.t = "dict"

Raised == [raised |-> TRUE, n |-> 0, s |-> <<>>]
ReturnInt(n) == [raised |-> FALSE, n |-> n, s |-> <<>>]
ReturnStr(s) == [raised |-> FALSE, n |-> 0, s |-> s]

\* lines 54-62: the candidates, in the order of the list
ShippingCands(o) ==
    << o.f.shipping_total, o.f.valor_frete, o.f.frete_total, o.f.total_frete,
       OrEmpty(o.f.frete).sub.valor,
       OrEmpty(o.f.totals).sub.shipping,
       OrEmpty(o.f.order).sub.shipping_total >>

\* whether building the list raises
ShippingCandsRaise(o) ==
    \/ ~CanGet(o)
    \/ ~CanGet(OrEmpty(o.f.frete))
    \/ ~CanGet(OrEmpty(o.f.totals))
    \/ ~CanGet(OrEmpty(o.f.order))

\* the loop of lines 63-67 with the test "if n > 0" weakened to "if n"
RECURSIVE FirstNonZero(_, _)
FirstNonZero(cands, i) ==
    IF i > Len(cands) THEN 0
    ELSE LET n == NumCentavos(cands[i])
         IN  IF n /= 0 THEN n ELSE FirstNonZero(cands, i + 1)

\* lines 63-67: the loop over the candidates from the i-th on
RECURSIVE FirstPositive(_, _)
FirstPositive(cands, i) ==
    IF i > Len(cands) THEN 0
    ELSE LET n == NumCentavos(cands[i])
         IN  IF n > 0 THEN n ELSE FirstPositive(cands, i + 1)

\* _extract_shipping_total(order_json)
ExtractShippingTotal(o) ==
    IF ShippingCandsRaise(o) THEN Raised
    ELSE ReturnInt(FirstPositive(ShippingCands(o), 1))

\* lines 70-75
TrackingCands(o) ==
    << OrEmpty(o.f.frete).sub.rastreio,
       o.f.rastreamento,
       OrEmpty(o.f.shipping).sub.tracking,
       OrEmpty(o.f.order).sub.tracking >>

TrackingCandsRaise(o) ==
    \/ ~CanGet(o)
    \/ ~CanGet(OrEmpty(o.f.frete))
    \/ ~CanGet(OrEmpty(o.f.shipping))
    \/ ~CanGet(OrEmpty(o.f.order))

\* lines 76-79
RECURSIVE FirstTruthy(_, _)
FirstTruthy(cands, i) ==
    IF i > Len(cands) THEN <<>>
    ELSE IF Truthy(cands[i]) THEN Upper(Strip(StrOf(cands[i])))
    ELSE FirstTruthy(cands, i + 1)

\* _extract_tracking_from_detail(order_json)
ExtractTracking(o) ==
    IF TrackingCandsRaise(o) THEN Raised
    ELSE ReturnStr(FirstTruthy(TrackingCands(o), 1))

----------------------------------------------------------------------------
(* Specification of the two extractors: the argument is any order record    *)
(* whose entries are drawn from the sets below.                             *)

S_10_00  == <<"1", "0", ",", "0", "0">>
S_21_74  == <<"2", "1", ",", "7", "4">>
S_neg5   == <<"-", "5", ",", "0", "0">>
S_7_00   == <<"7", ",", "0", "0">>
S_abc    == <<"a", "b", "c">>
S_gratis == <<"g", "r", "a", "t", "i", "s">>
S_blank  == <<" ", " ">>
S_am1br  == <<" ", "a", "m", "1", "b", "r", " ">>
S_AM1BR  == <<"A", "M", "1", "B", "R">>
S_CD2    == <<"C", "D", "2">>
S_ef3    == <<"e", "f", "3", " ">>

FreteValues ==
    { Nested(Null),
      JDict([NoSub EXCEPT !.valor = JStr(S_10_00), !.rastreio = JStr(S_am1br)]),
      JDict([NoSub EXCEPT !.rastreio = JStr(S_blank)]),
      JDict([NoSub EXCEPT !.valor = JStr(S_neg5)]),
      Nested(JStr(S_gratis)) }

TotalsValues ==
    { Nested(Null), JDict([NoSub EXCEPT !.shipping = JFloat(990)]), Nested(JList(1)) }

OrderValues ==
    { Nested(Null),
      JDict([NoSub EXCEPT !.shipping_total = JStr(S_7_00), !.tracking = JStr(S_ef3)]),
      Nested(JInt(5)) }

ShippingValues ==
    { Nested(Null), JDict([NoSub EXCEPT !.tracking = JStr(S_CD2)]), Nested(JList(0)) }

S_am123456789br ==
    <<" ", "a", "m", "1", "2", "3", "4", "5", "6", "7", "8", "9", "b", "r", " ">>
S_AM123456789BR ==
    <<"A", "M", "1", "2", "3", "4", "5", "6", "7", "8", "9", "B", "R">>

ExtractOrders ==
    { JOrder([NoFields EXCEPT !.rastreio = JStr(S_am123456789br)]),
      JOrder([NoFields EXCEPT !.rastreamento = JStr(S_am123456789br)]) }
      \cup
    { JOrder([NoFields EXCEPT
                !.shipping_total = a, !.valor_frete = b, !.frete_total = c,
                !.total_frete = d, !.frete = fr, !.totals = tt, !.order = od,
                !.rastreamento = r, !.shipping = sh, !.pedido_frete_valor = pf]) :
        a  \in {Null, JStr(S_21_74), JStr(S_neg5)},
        b  \in {Null, JFloat(1250), JStr(S_abc)},
        c  \in {Null, JInt(1500)},
        d  \in {Null, JInt(0)},
        fr \in FreteValues, tt \in TotalsValues, od \in OrderValues,
        r  \in {Null, JStr(S_AM1BR), JStr(S_blank)},
        sh \in ShippingValues,
        pf \in {Null, JStr(S_10_00)} }

InitExtract ==
    /\ pc = "call"
    /\ arg \in ExtractOrders
    /\ res = NoRes
    /\ ApiIdle

CallExtractShippingTotal ==
    /\ pc = "call"
    /\ pc' = "shipping"
    /\ res' = ExtractShippingTotal(arg)
    /\ UNCHANGED <<arg, apiVars>>

CallExtractTracking ==
    /\ pc = "call"
    /\ pc' = "tracking"
    /\ res' = ExtractTracking(arg)
    /\ UNCHANGED <<arg, apiVars>>

NextExtract == CallExtractShippingTotal \/ CallExtractTracking

SpecExtract == InitExtract /\ [][NextExtract]_vars

----------------------------------------------------------------------------
(* The upstream and the responses *)

\* STATUSES = list(range(1, 19)): the last status scanned
LastStatus == 18
MAX_PAGES_PER_STATUS == 5

\* _ok(r)
OkCodes == {200, 201, 202}
Ok(h) == h.code \in OkCodes

\* What a request to the upstream yields: an exception (timeout, connection
\* error), or a response with a status code and a body.  A body is
\*   "text"            no JSON
\*   "obj"             {...}                 items = <<the dict>>
\*   "data_obj"        {"data": x}           items = <<x>>, x no list
\*   "data_null"       {"data": null}
\*   "list"            [...]                 items = the elements
\*   "data_list"       {"data": [...]}       items = the elements
\*   "data_data_list"  {"data": {"data": [...]}}
Body(shape, items) == [shape |-> shape, items |-> items]
NoBody    == Body("text", <<>>)
Http(code, body) == [exc |-> FALSE, code |-> code, body |-> body]
HttpExc   == [exc |-> TRUE, code |-> 0, body |-> NoBody]

\* the request failed: it raised, or the upstream answered non-2xx
Failed(h) == h.exc \/ ~Ok(h)

\* a dict that holds the key "data" and no entry of an order
Wrapper == JOrder(NoFields)

NoResp == [code |-> 0, kind |-> "none", order_id |-> Null,
           shipping_total |-> 0, tracking |-> Null]
\* jsonify({"order_id": .., "shipping_total": .., "tracking": ..}), 200
Summary(oid, ship, trk) ==
    [code |-> 200, kind |-> "summary", order_id |-> oid,
     shipping_total |-> ship, tracking |-> trk]
NullResult == Summary(Null, 0, Null)
\* jsonify({"error": ..}), code
ErrorResp(code) == [NoResp EXCEPT !.code = code, !.kind = "error"]
\* make_response(r.text, r.status_code)
Passthrough(code) == [NoResp EXCEPT !.code = code, !.kind = "upstream"]

\* _unwrap_first taking the last element of a list instead of the first
UnwrapLast(b) ==
    CASE b.shape = "text"                -> EmptyOrder
      [] b.shape \in {"obj", "data_obj"} ->
            IF b.shape = "data_obj" /\ b.items[1].t /= "dict" THEN Wrapper
            ELSE b.items[1]
      [] b.shape \in {"list", "data_list"} ->
            IF b.items /= <<>> THEN b.items[Len(b.items)] ELSE EmptyOrder
      [] OTHER                           -> Wrapper

\* _unwrap_first(raw), raw = _json_safe(r)
UnwrapFirst(b) ==
    CASE b.shape = "text"                -> EmptyOrder
      [] b.shape \in {"obj", "data_obj"} ->
            IF b.shape = "data_obj" /\ b.items[1].t /= "dict" THEN Wrapper
            ELSE b.items[1]
      [] b.shape \in {"list", "data_list"} ->
            IF b.items /= <<>> THEN b.items[1] ELSE EmptyOrder
      [] OTHER                           -> Wrapper

\* data.get("data", data) of r.json(), lines 159-160 and 234; raises on a body
\* that is no JSON or no dict
DataOrSelfRaises(b) == b.shape \in {"text", "list"}
DataOrSelf(b) ==
    CASE b.shape \in {"obj", "data_obj"} -> b.items[1]
      [] b.shape = "data_data_list"      -> Wrapper
      [] b.shape = "data_null"           -> NotOrder(Null)
      [] OTHER                           -> NotOrder(JList(Len(b.items)))

\* get_order_detail_v1 answering a non-2xx upstream the way line 163 answers
\* a record that is no dict: an empty summary in place of the failure
DetailV1DefaultOnFailure(id, h) ==
    IF h.exc THEN ErrorResp(500)
    ELSE IF ~Ok(h) THEN Summary(JStr(id), 0, JStr(<<>>))
    ELSE IF DataOrSelfRaises(h.body) THEN ErrorResp(500)
    ELSE LET obj  == DataOrSelf(h.body)
             ship == ExtractShippingTotal(obj)
             trk  == ExtractTracking(obj)
         IN  IF obj.t /= "dict" THEN Summary(JStr(id), 0, JStr(<<>>))
             ELSE IF ship.raised \/ trk.raised THEN ErrorResp(500)
             ELSE Summary(JStr(id), ship.n, JStr(trk.s))

\* get_order_detail_v1(order_id) from the upstream's answer on, lines 157-168
DetailV1Response(id, h) ==
    IF h.exc THEN ErrorResp(500)
    ELSE IF ~Ok(h) THEN Passthrough(h.code)
    ELSE IF DataOrSelfRaises(h.body) THEN ErrorResp(500)
    ELSE LET obj  == DataOrSelf(h.body)
             ship == ExtractShippingTotal(obj)
             trk  == ExtractTracking(obj)
         IN  IF obj.t /= "dict" THEN Summary(JStr(id), 0, JStr(<<>>))
             ELSE IF ship.raised \/ trk.raised THEN ErrorResp(500)
             ELSE Summary(JStr(id), ship.n, JStr(trk.s))

----------------------------------------------------------------------------
(* The endpoints *)

IsV1 == req.ep \in {"detail_v1", "find_v1"}

\* (request.args.get(name) or default)
ArgOr(v, default) == IF Truthy(v) THEN v.s ELSE default

\* the deep parameter: line 182 (v1), line 295 (v2, lower-cased first)
DeepV1(v) == Strip(ArgOr(v, <<"0">>)) \in {<<"1">>, <<"t", "r", "u", "e">>, <<"y", "e", "s">>}
Lower(s) == [i \in 1..Len(s) |->
                IF \E k \in 1..26 : UpperLetters[k] = s[i]
                THEN LowerLetters[CHOOSE k \in 1..26 : UpperLetters[k] = s[i]]
                ELSE s[i]]
DeepV2(v) == Lower(Strip(ArgOr(v, <<"1">>)))
                \in {<<"1">>, <<"t", "r", "u", "e">>, <<"y", "e", "s">>, <<"y">>}

\* item.get("id") or item.get("order_id")
OidOf(item) == IF Truthy(item.f.id) THEN item.f.id ELSE item.f.order_id

\* Where the handler goes next: its position, the order id it holds, the
\* scan's position, and the response when it returns.  hit says that the scan
\* has just resolved an order's tracking to the requested one.
K(p, oid, status, page, rest, r) ==
    [pc |-> p, oid |-> oid,
     scan |-> [status |-> status, page |-> page, rest |-> rest], resp |-> r,
     hit |-> FALSE]
Hit(k) == [k EXCEPT !.hit = TRUE]
Return(r) == K("done", ctx.oid, scan.status, scan.page, <<>>, r)

\* the for loop over STATUSES moves on: lines 211 / 249, 333 / 371
ScanNextStatus(status) ==
    IF status < LastStatus THEN K("page", <<>>, status + 1, 1, <<>>, NoResp)
    ELSE K("done", <<>>, status, scan.page, <<>>, NullResult)

\* the for loop over the pages moves on: lines 212, 334
ScanNextPage(status, page) ==
    IF page < MAX_PAGES_PER_STATUS THEN K("page", <<>>, status, page + 1, <<>>, NoResp)
    ELSE ScanNextStatus(status)

\* for item in arr, up to the item's detail request: lines 225-231, 351-355.
\* An item that is no dict raises (caught at 246 / 368: the next page); an
\* item without id is skipped.
RECURSIVE ScanItems(_, _, _)
ScanItems(status, page, items) ==
    IF items = <<>> THEN ScanNextPage(status, page)
    ELSE IF Head(items).t /= "dict" THEN ScanNextPage(status, page)
    ELSE IF ~Truthy(OidOf(Head(items))) THEN ScanItems(status, page, Tail(items))
    ELSE K(IF IsV1 THEN "item" ELSE "any1", StrOf(OidOf(Head(items))),
           status, page, Tail(items), NoResp)

\* lines 204-207, 325-329: after the quick search gave nothing
AfterQuick ==
    IF ctx.deep THEN K("page", <<>>, 1, 1, <<>>, NoResp) ELSE Return(NullResult)

\* lines 237-245, 358-367: the detail of a scanned order, resolved
ScanMatch(obj) ==
    LET trk  == ExtractTracking(obj)
        ship == ExtractShippingTotal(obj)
    IN  IF trk.raised THEN ScanNextPage(scan.status, scan.page)
        ELSE IF trk.s /= ctx.tracking THEN ScanItems(scan.status, scan.page, scan.rest)
        ELSE IF ship.raised THEN Hit(ScanNextPage(scan.status, scan.page))
        ELSE Hit(Return(Summary(JStr(ctx.oid), ship.n, JStr(trk.s))))

\* who called _detail_by_id_any: the scan's statuses start at 1
Caller ==
    IF ctx.caller = "detail" THEN "detail"
    ELSE IF scan.status = 0 THEN "search" ELSE "deep"

\* What follows _detail_by_id_any's return of obj:
\*   get_order_detail_v2, lines 270-282
\*   find_by_query_v2's quick search, lines 313-323
\*   find_by_query_v2's deep scan, lines 356-369
AfterDetailAny(obj) ==
    LET trk  == ExtractTracking(obj)
        ship == ExtractShippingTotal(obj)
    IN  CASE Caller = "detail" ->
               IF ~Truthy(obj) THEN Return(ErrorResp(404))
               ELSE IF ship.raised \/ trk.raised THEN Return(ErrorResp(500))
               ELSE Return(Summary(JStr(ctx.oid), ship.n, JStr(trk.s)))
          [] Caller = "search" ->
               IF ship.raised \/ trk.raised THEN AfterQuick
               ELSE Return(Summary(JStr(ctx.oid), ship.n, JStr(trk.s)))
          [] OTHER ->
               IF ~Truthy(obj) THEN ScanItems(scan.status, scan.page, scan.rest)
               ELSE ScanMatch(obj)

\* arr of a list or search response: lines 193-196 / 219-222 (v1, raising on
\* a body that is no JSON or no dict), lines 341-349 (v2)
ArrV1Raises(b) == b.shape \in {"text", "list"}
ArrV1(b) == IF b.shape \in {"data_list", "data_data_list"} THEN b.items ELSE <<>>
ArrV2(b) == IF b.shape \in {"list", "data_list", "data_data_list"} THEN b.items ELSE <<>>

\* The handler moves to k, h being the upstream's answer to the request it
\* has just issued.  hist records that a request failed, that the scan passed
\* over an order whose tracking it resolved to the requested one, and the
\* body the response was made from.
Goto(k, h) ==
    /\ pc' = k.pc
    /\ ctx' = [ctx EXCEPT !.oid = k.oid]
    /\ scan' = k.scan
    /\ resp' = k.resp
    /\ hist' = [hist EXCEPT !.failed = @ \/ Failed(h),
                            !.skipped = @ \/ (k.hit /\ k.pc /= "done"),
                            !.used = IF k.pc = "done" /\ ~Failed(h) THEN h.body ELSE @]
    /\ UNCHANGED <<arg, res, req>>

\* a step that issues no request
Step(k) ==
    /\ pc' = k.pc
    /\ scan' = k.scan
    /\ resp' = k.resp
    /\ UNCHANGED <<arg, res, req, hist>>

\* get_order_detail_v1 / get_order_detail_v2 are entered: lines 149, 266-269
StartDetail ==
    /\ pc = "start"
    /\ req.ep \in {"detail_v1", "detail_v2"}
    /\ ctx' = [ctx EXCEPT !.oid = req.id.s, !.caller = "detail"]
    /\ Step(K(IF IsV1 THEN "get_v1" ELSE "any1", req.id.s, 0, 0, <<>>, NoResp))

\* find_by_query_v1 / _v2 up to the quick search: lines 177-187, 290-300
StartFind ==
    /\ pc = "start"
    /\ req.ep \in {"find_v1", "find_v2"}
    /\ LET order_id == Strip(ArgOr(req.id, <<>>))
           tracking == Upper(Strip(ArgOr(req.tracking, <<>>)))
           deep     == IF IsV1 THEN DeepV1(req.deep) ELSE DeepV2(req.deep)
       IN  IF order_id /= <<>>
           THEN /\ ctx' = [ctx EXCEPT !.oid = order_id, !.caller = "detail"]
                /\ Step(K(IF IsV1 THEN "get_v1" ELSE "any1", order_id, 0, 0, <<>>, NoResp))
           ELSE IF tracking = <<>>
           THEN /\ ctx' = ctx
                /\ Step(Return(ErrorResp(400)))
           ELSE /\ ctx' = [ctx EXCEPT !.tracking = tracking, !.deep = deep,
                                      !.caller = "search"]
                /\ Step(K("search", <<>>, 0, 0, <<>>, NoResp))

\* get_order_detail_v1: the request and the response, lines 154-168
GetOrderDetailV1(h) ==
    /\ pc = "get_v1"
    /\ Goto(Return(DetailV1Response(ctx.oid, h)), h)

\* _detail_by_id_any, first URL: lines 108-118
DetailByIdAnyFirst(h) ==
    /\ pc = "any1"
    /\ LET obj == UnwrapFirst(h.body)
       IN  IF ~Failed(h) /\ Truthy(obj)
           THEN Goto(AfterDetailAny(obj), h)
           ELSE Goto(K("any2", ctx.oid, scan.status, scan.page, scan.rest, NoResp), h)

\* _detail_by_id_any, second URL: lines 119-130
DetailByIdAnySecond(h) ==
    /\ pc = "any2"
    /\ LET obj == UnwrapFirst(h.body)
       IN  IF ~Failed(h) /\ Truthy(obj)
           THEN Goto(AfterDetailAny(obj), h)
           ELSE Goto(AfterDetailAny(EmptyOrder), h)

\* find_by_query_v1, the quick search: lines 188-205
QuickSearchV1(h) ==
    /\ pc = "search" /\ IsV1
    /\ LET arr == ArrV1(h.body)
           hit == /\ ~Failed(h) /\ ~ArrV1Raises(h.body)
                  /\ arr /= <<>> /\ arr[1].t = "dict" /\ Truthy(OidOf(arr[1]))
       IN  IF hit
           THEN Goto(K("get_v1", StrOf(OidOf(arr[1])), 0, 0, <<>>, NoResp), h)
           ELSE Goto(AfterQuick, h)

\* find_by_query_v2, the quick search: lines 302-326
QuickSearchV2(h) ==
    /\ pc = "search" /\ ~IsV1
    /\ LET first == UnwrapFirst(h.body)
           oid   == IF first.t = "dict" /\ Truthy(OidOf(first))
                    THEN Strip(StrOf(OidOf(first))) ELSE <<>>
       IN  IF ~Failed(h) /\ oid /= <<>>
           THEN Goto(K("any1", oid, 0, 0, <<>>, NoResp), h)
           ELSE Goto(AfterQuick, h)

\* find_by_query_v1, a list page of the deep scan: lines 213-228
ListPageV1(h) ==
    /\ pc = "page" /\ IsV1
    /\ IF Failed(h) \/ ArrV1Raises(h.body)
       THEN Goto(ScanNextPage(scan.status, scan.page), h)
       ELSE IF ArrV1(h.body) = <<>>
       THEN Goto(ScanNextStatus(scan.status), h)
       ELSE Goto(ScanItems(scan.status, scan.page, ArrV1(h.body)), h)

\* find_by_query_v2, a list page of the deep scan: lines 335-354
ListPageV2(h) ==
    /\ pc = "page" /\ ~IsV1
    /\ IF Failed(h)
       THEN Goto(ScanNextPage(scan.status, scan.page), h)
       ELSE IF ArrV2(h.body) = <<>>
       THEN Goto(ScanNextStatus(scan.status), h)
       ELSE Goto(ScanItems(scan.status, scan.page, ArrV2(h.body)), h)

\* find_by_query_v1, the detail of a scanned item: lines 229-247
ItemDetailV1(h) ==
    /\ pc = "item"
    /\ IF h.exc THEN Goto(ScanNextPage(scan.status, scan.page), h)
       ELSE IF ~Ok(h) THEN Goto(ScanItems(scan.status, scan.page, scan.rest), h)
       ELSE IF DataOrSelfRaises(h.body) THEN Goto(ScanNextPage(scan.status, scan.page), h)
       ELSE IF DataOrSelf(h.body).t /= "dict"
       THEN Goto(ScanItems(scan.status, scan.page, scan.rest), h)
       ELSE Goto(ScanMatch(DataOrSelf(h.body)), h)

----------------------------------------------------------------------------
(* Specification of the endpoints: one incoming request, the upstream       *)
(* answering each request of the handler in any way.                        *)

\* most elements of a list the upstream sends
MaxItems == 2

SeqsUpTo(S, n) == UNION {[1..k -> S] : k \in 0..n}

O_full    == JOrder([NoFields EXCEPT !.rastreamento = JStr(S_am1br),
                        !.frete = JDict([NoSub EXCEPT !.valor = JStr(S_10_00)])])
O_cd      == JOrder([NoFields EXCEPT !.shipping_total = JStr(S_neg5),
                        !.frete = JDict([NoSub EXCEPT !.rastreio = JStr(S_CD2)])])
O_badship == JOrder([NoFields EXCEPT !.rastreamento = JStr(S_AM1BR),
                        !.totals = Nested(JList(1))])
O_badboth == JOrder([NoFields EXCEPT !.frete = Nested(JStr(S_gratis))])
O_blank   == JOrder([NoFields EXCEPT !.valor_frete = JFloat(1250),
                        !.rastreamento = JStr(S_AM1BR),
                        !.frete = JDict([NoSub EXCEPT !.rastreio = JStr(S_blank)])])

ApiOrders == {O_full, O_cd, O_badship, O_badboth, O_blank, EmptyOrder}

\* the elements of a list sent in place of an order record
ListedValues == {O_full, NotOrder(JStr(S_abc))}

DetailBodies ==
    {NoBody, Body("data_null", <<>>)}
      \cup {Body("obj", <<o>>) : o \in ApiOrders}
      \cup {Body("data_obj", <<o>>) : o \in {O_cd, EmptyOrder, NotOrder(JStr(S_abc))}}
      \cup {Body(sh, items) : sh \in {"list", "data_list"},
                              items \in SeqsUpTo(ListedValues, MaxItems)}

I_7      == JOrder([NoFields EXCEPT !.id = JInt(7)])
I_8      == JOrder([NoFields EXCEPT !.order_id = JStr(<<"8">>)])
ListItems == {I_7, Wrapper, NotOrder(JStr(S_abc))}

ListBodies ==
    {NoBody, Body("data_null", <<>>), Body("obj", <<Wrapper>>),
     Body("list", <<>>), Body("list", <<I_7>>), Body("list", <<NotOrder(JStr(S_abc))>>),
     Body("data_data_list", <<>>), Body("data_data_list", <<I_8, I_7>>)}
      \cup {Body("data_list", items) : items \in SeqsUpTo(ListItems, MaxItems)}

Failures == {HttpExc, Http(404, NoBody), Http(500, NoBody)}
DetailOutcomes == Failures \cup {Http(200, b) : b \in DetailBodies}
ListOutcomes   == Failures \cup {Http(200, b) : b \in ListBodies}

Absent == Null
Requests ==
    {[ep |-> e, id |-> JStr(<<"7">>), tracking |-> Absent, deep |-> Absent] :
        e \in {"detail_v1", "detail_v2"}}
      \cup
    {[ep |-> "find_v1", id |-> i, tracking |-> tr, deep |-> d] :
        i  \in {Absent, JStr(<<" ", "7">>)},
        tr \in {Absent, JStr(S_am1br)},
        d  \in {Absent, JStr(<<"1">>)}}
      \cup
    {[ep |-> "find_v2", id |-> i, tracking |-> tr, deep |-> d] :
        i  \in {Absent, JStr(<<" ", "7">>)},
        tr \in {Absent, JStr(S_am1br)},
        d  \in {Absent, JStr(<<"0">>)}}

InitApi ==
    /\ pc = "start"
    /\ req \in Requests
    /\ ctx = [tracking |-> <<>>, deep |-> FALSE, oid |-> <<>>, caller |-> "none"]
    /\ scan = [status |-> 0, page |-> 0, rest |-> <<>>]
    /\ resp = NoResp
    /\ hist = [failed |-> FALSE, skipped |-> FALSE, used |-> NoBody]
    /\ arg = Null
    /\ res = NoRes

NextApi ==
    \/ StartDetail
    \/ StartFind
    \/ \E h \in DetailOutcomes : GetOrderDetailV1(h)
    \/ \E h \in DetailOutcomes : DetailByIdAnyFirst(h)
    \/ \E h \in DetailOutcomes : DetailByIdAnySecond(h)
    \/ \E h \in ListOutcomes : QuickSearchV1(h)
    \/ \E h \in ListOutcomes : QuickSearchV2(h)
    \/ \E h \in ListOutcomes : ListPageV1(h)
    \/ \E h \in ListOutcomes : ListPageV2(h)
    \/ \E h \in DetailOutcomes : ItemDetailV1(h)

SpecApi == InitApi /\ [][NextApi]_vars

----------------------------------------------------------------------------
(* Claims about the helpers *)

HasChar(s, c) == \E i \in 1..Len(s) : s[i] = c

S_1_234_56 == <<"1", ".", "2", "3", "4", ",", "5", "6">>
S_21dot74  == <<"2", "1", ".", "7", "4">>

\* C1: _num_centavos of a string follows the right-most separator rule:
\* "1.234,56" gives 123456, "21,74" gives 2174, "21.74" gives 2174; a string
\* with '.' and no ',' has its '.' read as the decimal point; a string that is
\* no number gives 0.
C1_RightmostSeparatorRule ==
    pc = "done" =>
        /\ arg.s = S_1_234_56 => res.n = 123456
        /\ arg.s = S_21_74    => res.n = 2174
        /\ arg.s = S_21dot74  => res.n = 2174
        /\ (HasChar(arg.s, ".") /\ ~HasChar(arg.s, ",") /\ ParseFloat(arg.s).ok)
              => res.n = CentsOfParsed(ParseFloat(arg.s))
        /\ HasChar(arg.s, "x") => res.n = 0

\* the candidate at a nested path, as the claims read it: absent unless the
\* value on the way is a mapping
AtPath(nested, key) == IF nested.t = "dict" THEN nested.sub[key] ELSE Null

NamedShippingCands(o) ==
    << o.f.shipping_total, o.f.valor_frete, o.f.frete_total, o.f.total_frete,
       AtPath(o.f.frete, "valor"), AtPath(o.f.totals, "shipping"),
       AtPath(o.f.order, "shipping_total") >>

PositiveAt(cands) == {i \in 1..Len(cands) : NumCentavos(cands[i]) > 0}

FirstOf(S) == CHOOSE i \in S : \A j \in S : i <= j

\* C2: _extract_shipping_total returns the parsed value of the first candidate,
\* in the order shipping_total, valor_frete, frete_total, total_frete,
\* frete.valor, totals.shipping, order.shipping_total, whose parsed value is
\* positive; absent and non-positive candidates are skipped.
C2_FirstPositiveCandidate ==
    pc = "shipping" =>
        LET cands == NamedShippingCands(arg)
            pos   == PositiveAt(cands)
        IN  /\ ~res.raised
            /\ res.n = IF pos = {} THEN 0 ELSE NumCentavos(cands[FirstOf(pos)])

\* What remains of C2 on the code: whenever _extract_shipping_total returns,
\* it returns the first positive candidate (0 when there is none).
ReturnedShippingIsFirstPositive ==
    (pc = "shipping" /\ ~res.raised) =>
        LET cands == NamedShippingCands(arg)
            pos   == PositiveAt(cands)
        IN  res.n = IF pos = {} THEN 0 ELSE NumCentavos(cands[FirstOf(pos)])

\* C3: when no named candidate is positive and the record holds, anywhere in
\* its tree, a key "frete" whose sub-key "valor" is "10,00", the shipping total
\* is 1000, found by a recursive scan.  (Here the key is at pedido.frete, in
\* a record all of whose named paths resolve.)
C3_RecursiveFallbackScan ==
    ( /\ pc = "shipping"
      /\ ~ShippingCandsRaise(arg)
      /\ PositiveAt(NamedShippingCands(arg)) = {}
      /\ arg.f.pedido_frete_valor = JStr(S_10_00) )
        => res = ReturnInt(1000)

\* a tracking candidate as the claim reads it: trimmed and upper-cased
Trimmed(c) == IF c.t = "null" THEN <<>> ELSE Upper(Strip(StrOf(c)))

NonEmptyAt(cands) == {i \in 1..Len(cands) : Trimmed(cands[i]) /= <<>>}

\* C4: _extract_tracking_from_detail returns the first non-empty match among the
\* known tracking fields, trimmed and upper-cased: {"rastreio":
\* " am123456789br "} gives "AM123456789BR", a candidate that is empty once
\* trimmed does not end the search, and the result is empty only when no
\* candidate matches.  (Stated on records all of whose paths resolve.)
C4_FirstNonEmptyTracking ==
    (pc = "tracking" /\ ~TrackingCandsRaise(arg)) =>
        LET cands == TrackingCands(arg)
            ne    == NonEmptyAt(cands)
        IN  /\ arg.f.rastreio = JStr(S_am123456789br) /\ ne = {}
                => res.s = S_AM123456789BR
            /\ ne /= {} => res.s = Trimmed(cands[FirstOf(ne)])

\* C5: field resolution never raises: for every order record that is a
\* mapping, whatever the type of its values, both extractors return.
C5_ResolutionNeverRaises ==
    pc \in {"shipping", "tracking"} => ~res.raised

----------------------------------------------------------------------------
(* Claims about the endpoints *)

\* the incoming request is answered by get_order_detail_v1 / _v2 alone
DetailRoute == ctx.caller = "detail"
\* the incoming request is a lookup by tracking code
TrackingLookup == pc /= "start" /\ ctx.caller = "search"

FailureResp == resp.kind \in {"error", "upstream"} /\ resp.code \notin OkCodes

FromList == pc = "done" /\ DetailRoute /\ hist.used.shape \in {"list", "data_list"}
\* its first element, an empty mapping when it has none
FirstElement ==
    IF hist.used.items = <<>> THEN EmptyOrder ELSE hist.used.items[1]

\* C7, as stated: every order-detail path takes the first element of a list
\* (top-level or under "data") as the record, so its shipping total and
\* tracking are the ones returned.  (Stated for a first element that both
\* extractors resolve.)
C7_ListRecordTolerated ==
    ( /\ FromList
      /\ Truthy(FirstElement)
      /\ ~ExtractShippingTotal(FirstElement).raised
      /\ ~ExtractTracking(FirstElement).raised )
        => resp = Summary(JStr(ctx.oid),
                          ExtractShippingTotal(FirstElement).n,
                          JStr(ExtractTracking(FirstElement).s))

\* C7, amended: get_order_detail_v2 answers from the first element: its
\* shipping total and tracking, 404 when it is empty, 500 when resolving it
\* raises.  get_order_detail_v1 answers 500 to a top-level list, and shipping
\* total 0 with an empty tracking to a list under "data".
C7_OnlyV2UnwrapsList ==
    FromList =>
        IF IsV1
        THEN resp = IF hist.used.shape = "list" THEN ErrorResp(500)
                    ELSE Summary(JStr(ctx.oid), 0, JStr(<<>>))
        ELSE resp =
               IF ~Truthy(FirstElement) THEN ErrorResp(404)
               ELSE IF \/ ExtractShippingTotal(FirstElement).raised
                       \/ ExtractTracking(FirstElement).raised
               THEN ErrorResp(500)
               ELSE Summary(JStr(ctx.oid),
                            ExtractShippingTotal(FirstElement).n,
                            JStr(ExtractTracking(FirstElement).s))

C7_Witness ==
    /\ FromList /\ req.ep = "detail_v2"
    /\ hist.used = Body("list", <<O_full, NotOrder(JStr(S_abc))>>)
    /\ resp = Summary(JStr(<<"7">>), 1000, JStr(S_AM1BR))

IsLowerLetter(c) == \E k \in 1..26 : LowerLetters[k] = c

TrimmedUpper(s) ==
    /\ s /= <<>> => (s[1] /= " " /\ s[Len(s)] /= " ")
    /\ \A i \in 1..Len(s) : ~IsLowerLetter(s[i])

\* C8: every order summary has an integer shipping_total >= 0 and a tracking
\* that, when not null, is upper-cased without leading or trailing whitespace.
C8_SummaryInvariant ==
    resp.kind = "summary" =>
        /\ resp.shipping_total \in Nat
        /\ resp.tracking.t /= "null" =>
              (resp.tracking.t = "str" /\ TrimmedUpper(resp.tracking.s))

\* a summary made from a record with a negative amount and a padded tracking
C8_Witness ==
    /\ pc = "done"
    /\ hist.used = Body("data_obj", <<O_cd>>)
    /\ resp = Summary(JStr(<<"7">>), 0, JStr(S_CD2))

\* C9: a lookup by tracking code that answers with an order_id answers with
\* the requested tracking.
C9_LookupAnswersRequestedTracking ==
    (pc = "done" /\ TrackingLookup /\ resp.kind = "summary" /\ resp.order_id /= Null)
        => resp.tracking = JStr(ctx.tracking)

\* the position of the deep scan, pages within statuses
ScanPos(s) == s.status * (MAX_PAGES_PER_STATUS + 1) + s.page

\* The deep scan only moves forward, and every list page it requests is a
\* later one than the last: no more than 18 x 5 list pages are requested.
DeepScanAdvances ==
    [][ /\ ScanPos(scan') >= ScanPos(scan)
        /\ (pc = "page" /\ pc' = "page") => ScanPos(scan') > ScanPos(scan) ]_vars

\* C10: the deep scan visits statuses 1..18 and pages 1..5 and answers with
\* the first order, in (status, page, item) order, whose resolved tracking is
\* the requested one, or with order_id null and shipping_total 0 when there is
\* none.
C10_DeepScanAnswersFirstMatch ==
    /\ scan.status \in 0..LastStatus /\ scan.page \in 0..MAX_PAGES_PER_STATUS
    /\ (pc = "done" /\ TrackingLookup /\ scan.status >= 1) =>
          /\ ~hist.skipped
          /\ \/ resp = NullResult
             \/ /\ resp.kind = "summary" /\ resp.order_id = JStr(ctx.oid)
                /\ resp.tracking = JStr(ctx.tracking)

=============================================================================
